---- MODULE Spec2Model ----
\* Model of the cons-util console logging engine (src/src/cons.rs, lib.rs, file.rs).
\*
\* Strings are modelled as sequences of chunks (a chunk is a TLA+ string);
\* string concatenation is \o, the empty string is << >>.  A line is a
\* string; the terminal and the colorless log are sequences of lines.
EXTENDS Integers, Sequences, FiniteSets, TLC

VARIABLES
    lang,            \* Console.lang
    log_list,        \* Console.log_list
    log_limit,       \* Console.log_limit
    ignore_logs,     \* Console.ignore_logs (pub field)
    fs,              \* the file system: path -> file content, or NoFile
    clock,           \* Local::now(): the clock ticks at every output call
    term,            \* lines println!-ed by the last called operation
    cons_log_lines,  \* cons_log_lines of the last output call
    log_files,       \* the log_files argument of the last output call
    arg,             \* the argument of the last called operation
    ret,             \* the value returned by the last called operation
    last_op,         \* the last called operation
    prev_op,         \* the operation called before it
    before           \* log_list as it was when the last operation was called

vars == <<lang, log_list, log_limit, ignore_logs, fs, clock, term,
          cons_log_lines, log_files, arg, ret, last_op, prev_op, before>>

\* ---------------------------------------------------------------- bounds
MaxLogs == 2
MaxFiles == 2
MaxOutputs == 2

\* ------------------------------------------------------- integer widths
\* A usize is held as [hi, lo], the number hi * 2^16 + lo with lo < 2^16,
\* so that values at and beyond the i32 range can be written down.
TwoPow15 == 32768
TwoPow16 == 65536
USize(hi, lo) == [hi |-> hi, lo |-> lo]
U(n) == USize(0, n)

\* `v as i32` for a usize v: the low 32 bits, read as two's complement.
AsI32(v) ==
    LET h == v.hi % TwoPow16 IN
    (IF h >= TwoPow15 THEN h - TwoPow16 ELSE h) * TwoPow16 + v.lo

\* usize::to_string
USizeToString(v) ==
    IF v.hi = 0 THEN <<ToString(v.lo)>> ELSE <<ToString(v.hi), "*2^16+", ToString(v.lo)>>

\* ------------------------------------------------------ ConsoleLogLimit
NoLimit == [tag |-> "NoLimit", n |-> U(0)]
Limited(k) == [tag |-> "Limited", n |-> k]

\* impl Display for ConsoleLogLimit
LimitDisplay(l) == IF l.tag = "NoLimit" THEN <<"[no limit]">> ELSE USizeToString(l.n)

\* -------------------------------------------------------- ConsoleLogKind
Kinds == {"Error", "Warning", "Note"}

get_log_color_num(kind) ==
    CASE kind = "Error" -> 31
      [] kind = "Warning" -> 33
      [] kind = "Note" -> 34

get_log_kind_name(kind) ==
    CASE kind = "Error" -> "err"
      [] kind = "Warning" -> "warn"
      [] kind = "Note" -> "note"

\* ----------------------------------------------------------- translators
\* A translator node.  variant names an InternalTranslator variant, or
\* "User" for a ConsoleLogTranslator implemented by the host application,
\* which recognizes the language codes in langs and resolves to text.
Node(variant, path, limit, langs, text) ==
    [variant |-> variant, path |-> path, log_limit |-> limit, langs |-> langs, text |-> text]

Internal(variant) == Node(variant, "", NoLimit, {}, "")
PathDescription(path) == Node("PathDescription", path, NoLimit, {}, "")
LogLimitExceeded(limit) == Node("LogLimitExceeded", "", limit, {}, "")
UserTranslator(text, langs) == Node("User", "", NoLimit, langs, text)

Success(s) == [tag |-> "Success", text |-> s]
UnknownLanguage == [tag |-> "UnknownLanguage", text |-> << >>]

\* InternalLanguage::from
\* A faulty InternalLanguage::from, which falls back to English.
InternalLanguageFrom_FallsBackToEnglish(s) ==
    CASE s = "ja" -> "Japanese"
      [] OTHER -> "English"

InternalLanguageFrom(s) ==
    CASE s = "en" -> "English"
      [] s = "ja" -> "Japanese"
      [] OTHER -> "None"

InternalText(node, l) ==
    LET en == l = "English" IN
    CASE node.variant = "ExpectedFilePathNotDirectoryPath" ->
            IF en THEN <<"expected file path not directory path">>
                  ELSE <<"ja:expected file path not directory path">>
      [] node.variant = "FailedToGetCurrentDirectory" ->
            IF en THEN <<"failed to get current directory">>
                  ELSE <<"ja:failed to get current directory">>
      [] node.variant = "FailedToOpenFile" ->
            IF en THEN <<"failed to open file">> ELSE <<"ja:failed to open file">>
      [] node.variant = "FailedToOpenFileOrDirectory" ->
            IF en THEN <<"failed to open file or directory">>
                  ELSE <<"ja:failed to open file or directory">>
      [] node.variant = "FailedToReadFile" ->
            IF en THEN <<"failed to read file">> ELSE <<"ja:failed to read file">>
      [] node.variant = "FailedToWriteFile" ->
            IF en THEN <<"failed to write file">> ELSE <<"ja:failed to write file">>
      [] node.variant = "LogLimitExceeded" ->
            IF en THEN <<"log limit ">> \o LimitDisplay(node.log_limit) \o <<" exceeded">>
                  ELSE <<"ja:log limit ">> \o LimitDisplay(node.log_limit) \o <<" exceeded">>
      [] node.variant = "MetadataIsNotAvailableOnThisPlatform" ->
            IF en THEN <<"metadata is not available on this platform">>
                  ELSE <<"ja:metadata is not available on this platform">>
      [] node.variant = "PathDoesNotExist" ->
            IF en THEN <<"path does not exist">> ELSE <<"ja:path does not exist">>
      [] node.variant = "PathDescription" ->
            IF en THEN <<"path:\t", node.path>> ELSE <<"ja:path:\t", node.path>>

\* impl ConsoleLogTranslator for InternalTranslator
InternalTranslate(node, lang_name) ==
    LET l == InternalLanguageFrom(lang_name) IN
    IF l = "None" THEN UnknownLanguage ELSE Success(InternalText(node, l))

\* ConsoleLogTranslator::translate, dispatched on the node
translate(node, lang_name) ==
    IF node.variant = "User"
    THEN IF lang_name \in node.langs
         THEN Success(<<lang_name, ":", node.text>>)
         ELSE UnknownLanguage
    ELSE InternalTranslate(node, lang_name)

\* ------------------------------------------------------------ ConsoleLog
\* log!(kind, title, descs...)
Log(kind, title, descs) == [kind |-> kind, title |-> title, descs |-> descs]


\* impl ConsoleLogger for FileManLog: an error value is [variant, path, log_limit]
FileManLog(variant, path, limit) == [variant |-> variant, path |-> path, log_limit |-> limit]

get_log(e) ==
    CASE e.variant = "FailedToGetCurrentDirectory" ->
            Log("Error", Internal("FailedToGetCurrentDirectory"), << >>)
      [] e.variant = "LogLimitExceeded" ->
            Log("Error", LogLimitExceeded(e.log_limit), << >>)
      [] OTHER ->
            Log("Error", Internal(e.variant), <<PathDescription(e.path)>>)

\* ------------------------------------------------------------ formatting
Some(v) == [some |-> TRUE, v |-> v]
None == [some |-> FALSE, v |-> 0]

\* A faulty format_title, which writes the escapes also without a color.
format_title_AlwaysEscapes(color, kind, title) ==
    <<"\\x1b[", ToString(color.v), "m">> \o <<"[", kind, "]">> \o <<"\\x1b[m">>
        \o <<" ">> \o title

\* Console::format_title
format_title(color, kind, title) ==
    LET color_begin == IF color.some THEN <<"\\x1b[", ToString(color.v), "m">> ELSE << >>
        color_end == IF color.some THEN <<"\\x1b[m">> ELSE << >>
    IN  color_begin \o <<"[", kind, "]">> \o color_end \o <<" ">> \o title

\* Console::format_unknown_language_log
format_unknown_language_log ==
    format_title(Some(get_log_color_num("Error")), get_log_kind_name("Error"),
                 <<"unknown language">>)

\* Console::format_log_file_writing_failure_log
format_log_file_writing_failure_log ==
    format_title(Some(get_log_color_num("Error")), get_log_kind_name("Error"),
                 <<"log file writing failure">>)

\* ---------------------------------------------------------- Console::print
\* The result of a print is the lines it println!-ed (term) and the lines
\* it pushed to its log_lines argument (lines).
Printed(t, l) == [term |-> t, lines |-> l]

\* A faulty loop, which goes on to the next description after one that
\* did not resolve.
RECURSIVE PrintDescs_SkipsUnresolved(_, _, _, _)
PrintDescs_SkipsUnresolved(descs, i, lang_name, acc) ==
    IF i > Len(descs)
    THEN Printed(acc.term \o << << >> >>, acc.lines \o << << >> >>)
    ELSE LET r == translate(descs[i], lang_name) IN
         IF r.tag = "UnknownLanguage"
         THEN PrintDescs_SkipsUnresolved(descs, i + 1, lang_name,
                  Printed(acc.term \o <<format_unknown_language_log, << >> >>, acc.lines))
         ELSE PrintDescs_SkipsUnresolved(descs, i + 1, lang_name,
                  Printed(Append(acc.term, r.text), Append(acc.lines, r.text)))

\* The loop over log.descs (cons.rs 227-239) and the trailing blank line.
RECURSIVE PrintDescs(_, _, _, _)
PrintDescs(descs, i, lang_name, acc) ==
    IF i > Len(descs)
    THEN Printed(acc.term \o << << >> >>, acc.lines \o << << >> >>)
    ELSE LET r == translate(descs[i], lang_name) IN
         IF r.tag = "UnknownLanguage"
         THEN Printed(acc.term \o <<format_unknown_language_log, << >> >>, acc.lines)
         ELSE PrintDescs(descs, i + 1, lang_name,
                         Printed(Append(acc.term, r.text), Append(acc.lines, r.text)))

\* A faulty print, which goes on to the descriptions after an unresolved title.
print_NoEarlyReturn(log, lang_name) ==
    LET title_color == get_log_color_num(log.kind)
        kind_name == get_log_kind_name(log.kind)
        r == translate(log.title, lang_name)
    IN  IF r.tag = "UnknownLanguage"
        THEN PrintDescs(log.descs, 1, lang_name,
                        Printed(<<format_unknown_language_log, << >> >>, << >>))
        ELSE PrintDescs(log.descs, 1, lang_name,
                        Printed(<<format_title(Some(title_color), kind_name, r.text)>>,
                                <<format_title(None, kind_name, r.text)>>))

print(log, lang_name) ==
    LET title_color == get_log_color_num(log.kind)
        kind_name == get_log_kind_name(log.kind)
        r == translate(log.title, lang_name)
    IN  IF r.tag = "UnknownLanguage"
        THEN Printed(<<format_unknown_language_log, << >> >>, << >>)
        ELSE PrintDescs(log.descs, 1, lang_name,
                        Printed(<<format_title(Some(title_color), kind_name, r.text)>>,
                                <<format_title(None, kind_name, r.text)>>))

\* ------------------------------------------------------ Console::print_all
\* The truncation note is printed with a fresh Vec as its log_lines
\* (cons.rs 202): its println!-ed lines reach the terminal, the lines it
\* pushes are dropped with that Vec.
LimitNote(limit) == Log("Note", LogLimitExceeded(limit), << >>)

RECURSIVE PrintAllLoop(_, _, _, _, _, _, _)
PrintAllLoop(list, i, log_count, limit_num, limit, lang_name, acc) ==
    IF i > Len(list)
    THEN acc
    ELSE IF limit_num # -1 /\ log_count + 1 > limit_num
         THEN Printed(acc.term \o print(LimitNote(limit), lang_name).term, acc.lines)
         ELSE LET p == print(list[i], lang_name) IN
              PrintAllLoop(list, i + 1, log_count + 1, limit_num, limit, lang_name,
                           Printed(acc.term \o p.term, acc.lines \o p.lines))

print_all(list, limit, lang_name) ==
    LET limit_num == IF limit.tag = "NoLimit" THEN -1 ELSE AsI32(limit.n)
    IN  PrintAllLoop(list, 1, 0, limit_num, limit, lang_name, Printed(<< >>, << >>))


\* ------------------------------------------------------------ file system
\* Destinations.  File::create fails on the paths of CreateFails (a missing
\* directory); on the paths of WriteFails the file is created, hence emptied,
\* and the write then fails (a full disk).
Paths == {"a.log", "b.log", "nodir/c.log", "full/d.log"}
CreateFails == {"nodir/c.log"}
WriteFails == {"full/d.log"}
Writable(path) == path \notin CreateFails /\ path \notin WriteFails

NoFile == [exists |-> FALSE, content |-> << >>]
File(content) == [exists |-> TRUE, content |-> content]

Ok == [tag |-> "Ok", err |-> << >>]
Err(e) == [tag |-> "Err", err |-> <<e>>]

\* A faulty FileMan::write_all, which opens the file for appending.
FileManWriteAll_Appends(f, path, content) ==
    IF path \in CreateFails
    THEN [fs |-> f, res |-> Err(FileManLog("FailedToOpenFile", path, NoLimit))]
    ELSE IF path \in WriteFails
         THEN [fs |-> [f EXCEPT ![path] = File(f[path].content)],
               res |-> Err(FileManLog("FailedToWriteFile", path, NoLimit))]
         ELSE [fs |-> [f EXCEPT ![path] = File(f[path].content \o content)], res |-> Ok]

\* FileMan::write_all: the file system after the call and the call's result
FileManWriteAll(f, path, content) ==
    IF path \in CreateFails
    THEN [fs |-> f, res |-> Err(FileManLog("FailedToOpenFile", path, NoLimit))]
    ELSE IF path \in WriteFails
         THEN [fs |-> [f EXCEPT ![path] = File(<< >>)],
               res |-> Err(FileManLog("FailedToWriteFile", path, NoLimit))]
         ELSE [fs |-> [f EXCEPT ![path] = File(content)], res |-> Ok]

\* ----------------------------------------------------------------- LogFile
ConsoleLogs == [tag |-> "ConsoleLogs", lines |-> << >>]
TextLines(lines) == [tag |-> "TextLines", lines |-> lines]
LogFile(kind, output_path) == [kind |-> kind, output_path |-> output_path]

\* [String]::join
RECURSIVE Join(_, _)
Join(lines, sep) ==
    IF Len(lines) = 0 THEN << >>
    ELSE IF Len(lines) = 1 THEN lines[1]
    ELSE lines[1] \o <<sep>> \o Join(Tail(lines), sep)

\* The header of a log file (cons.rs 169-174); created_at is Local::now().
Header(created_at) ==
    Join(<< <<"--- Log File ---">>,
            << >>,
            <<" * created at ", ToString(created_at)>>,
            <<" * generated by cons-util">> >>, "\n")

\* ------------------------------------------------------ Console::write_all
\* The loop over log_files (cons.rs 176-186); `?` returns the first failure.
\* A faulty loop, which writes the console's lines to every log file.
RECURSIVE WriteAllLoop_IgnoresKind(_, _, _, _, _)
WriteAllLoop_IgnoresKind(files, i, header, lines, f) ==
    IF i > Len(files)
    THEN [fs |-> f, res |-> Ok]
    ELSE LET output_content == header \o <<"\n", "\n">> \o Join(lines, "\n")
             w == FileManWriteAll(f, files[i].output_path, output_content)
         IN  IF w.res.tag = "Err"
             THEN w
             ELSE WriteAllLoop_IgnoresKind(files, i + 1, header, lines, w.fs)

RECURSIVE WriteAllLoop(_, _, _, _, _)
WriteAllLoop(files, i, header, lines, f) ==
    IF i > Len(files)
    THEN [fs |-> f, res |-> Ok]
    ELSE LET each_file_log == files[i]
             ls == IF each_file_log.kind.tag = "TextLines"
                   THEN each_file_log.kind.lines ELSE lines
             output_content == header \o <<"\n", "\n">> \o Join(ls, "\n")
             w == FileManWriteAll(f, each_file_log.output_path, output_content)
         IN  IF w.res.tag = "Err"
             THEN w
             ELSE WriteAllLoop(files, i + 1, header, lines, w.fs)

write_all(files, lines, created_at, f) ==
    WriteAllLoop(files, 1, Header(created_at), lines, f)

\* ---------------------------------------------------------- Console::output
\* The terminal lines, the colorless lines and the file system of one call.
output(list, limit, lang_name, files, created_at, f) ==
    LET p == print_all(list, limit, lang_name)
        w == write_all(files, p.lines, created_at, f)
    IN  [term |-> IF w.res.tag = "Ok" THEN p.term
                  ELSE Append(p.term, format_log_file_writing_failure_log),
         lines |-> p.lines,
         fs |-> w.fs]

\* ------------------------------------------------- Console::append_log etc.
\* A faulty append_log, which inserts at the front of the buffer.
append_log_Prepends(list, ignore, log) == IF ~ignore THEN <<log>> \o list ELSE list

\* A faulty append_log, which does not read ignore_logs.
append_log_IgnoresFlag(list, ignore, log) == Append(list, log)

append_log(list, ignore, log) == IF ~ignore THEN Append(list, log) ELSE list

\* A faulty clear, which drops the last entry only.
clear_DropsLast(list) == IF Len(list) > 0 THEN SubSeq(list, 1, Len(list) - 1) ELSE list

clear(list) == << >>

\* A faulty pop_log, which removes the oldest entry.
pop_log_RemovesFirst(list) == IF Len(list) > 0 THEN Tail(list) ELSE list

pop_log(list) == IF Len(list) > 0 THEN SubSeq(list, 1, Len(list) - 1) ELSE list

\* ConsoleResultConsumption::consume: the buffer after the call and the
\* value returned.  A result is [tag |-> "Ok", v] or [tag |-> "Err", e].
ResOk(v) == [tag |-> "Ok", v |-> v, e |-> << >>]
ResErr(e) == [tag |-> "Err", v |-> 0, e |-> <<e>>]
ConsOk(v) == [tag |-> "Ok", v |-> v]
ConsErr == [tag |-> "Err", v |-> 0]
Unit == [tag |-> "Unit", v |-> 0]

\* A faulty consume, which drops the failure instead of logging it.
consume_DropsFailure(result, list, ignore) ==
    IF result.tag = "Ok"
    THEN [log_list |-> list, ret |-> ConsOk(result.v)]
    ELSE [log_list |-> list, ret |-> ConsErr]

consume(result, list, ignore) ==
    IF result.tag = "Ok"
    THEN [log_list |-> list, ret |-> ConsOk(result.v)]
    ELSE [log_list |-> append_log(list, ignore, get_log(result.e[1])), ret |-> ConsErr]


\* ------------------------------------------------------------------ inputs
Langs == {"en", "ja", "fr"}

\* Limited carries a usize: small limits around the buffer sizes, and
\* limits at and beyond the i32 range.
Limits == {NoLimit} \cup {Limited(U(k)) : k \in 0..MaxLogs}
                    \cup {Limited(USize(TwoPow15, 0)),
                          Limited(USize(TwoPow16 - 1, TwoPow16 - 1))}

\* Logs the host application appends.
LogOpenFile == get_log(FileManLog("FailedToOpenFile", "foo.txt", NoLimit))
LogLowDisk ==
    Log("Warning", UserTranslator("low disk", {"en", "ja", "fr"}),
        <<UserTranslator("usage 97%", {"en", "ja", "fr"}),
          PathDescription("/var"),
          UserTranslator("free some space", {"en", "ja", "fr"})>>)
LogHint == Log("Note", UserTranslator("hint", {"en"}), << >>)
LogPool == {LogOpenFile, LogLowDisk, LogHint}

\* Results the host application consumes.
ResultPool == {ResOk(7),
               ResErr(FileManLog("FailedToOpenFile", "foo.txt", NoLimit)),
               ResErr(FileManLog("FailedToGetCurrentDirectory", "", NoLimit))}

\* Log files the host application asks for.
FilePool == {LogFile(ConsoleLogs, "a.log"),
             LogFile(ConsoleLogs, "b.log"),
             LogFile(TextLines(<< <<"build 42">>, <<"done">> >>), "a.log"),
             LogFile(ConsoleLogs, "nodir/c.log"),
             LogFile(TextLines(<< <<"build 42">>, <<"done">> >>), "full/d.log")}

TermFiles == {<< >>, <<LogFile(ConsoleLogs, "nodir/c.log")>>}

\* The limits and logs of the runs that write log files.
FileLimits == {NoLimit, Limited(U(1))}
FileLogPool == {LogOpenFile, LogLowDisk}

SeqsUpTo(S, n) == UNION {[1..k -> S] : k \in 0..n}

NoArg == [tag |-> "None", log |-> << >>, result |-> << >>, flag |-> FALSE]
LogArg(log) == [tag |-> "Log", log |-> <<log>>, result |-> << >>, flag |-> FALSE]
ResultArg(r) == [tag |-> "Result", log |-> << >>, result |-> <<r>>, flag |-> FALSE]
FlagArg(b) == [tag |-> "Flag", log |-> << >>, result |-> << >>, flag |-> b]

\* ------------------------------------------------------------------- state
\* Console::new
Init ==
    /\ lang \in Langs
    /\ log_limit \in Limits
    /\ log_list = << >>
    /\ ignore_logs = FALSE
    /\ fs = [p \in Paths |-> NoFile]
    /\ clock = 0
    /\ term = << >>
    /\ cons_log_lines = << >>
    /\ log_files = << >>
    /\ arg = NoArg
    /\ ret = Unit
    /\ last_op = "new"
    /\ prev_op = "none"
    /\ before = << >>

\* What every operation but output leaves behind.
Called(op, a, r) ==
    /\ last_op' = op
    /\ prev_op' = last_op
    /\ before' = log_list
    /\ arg' = a
    /\ ret' = r
    /\ UNCHANGED <<lang, log_limit>>

NoOutput ==
    /\ term' = << >>
    /\ cons_log_lines' = << >>
    /\ log_files' = << >>
    /\ UNCHANGED <<fs, clock>>

\* A faulty append_log, which refuses an entry once the buffer holds as many
\* entries as the limit admits.
AppendLog_RespectsLimit(log) ==
    /\ Len(log_list) < MaxLogs
    /\ log_list' = IF log_limit.tag = "Limited" /\ log_limit.n.hi = 0
                      /\ Len(log_list) >= log_limit.n.lo
                   THEN log_list
                   ELSE append_log(log_list, ignore_logs, log)
    /\ UNCHANGED ignore_logs
    /\ Called("append_log", LogArg(log), Unit)
    /\ NoOutput

AppendLog(log) ==
    /\ Len(log_list) < MaxLogs
    /\ log_list' = append_log(log_list, ignore_logs, log)
    /\ UNCHANGED ignore_logs
    /\ Called("append_log", LogArg(log), Unit)
    /\ NoOutput

Clear ==
    /\ log_list' = clear(log_list)
    /\ UNCHANGED ignore_logs
    /\ Called("clear", NoArg, Unit)
    /\ NoOutput

PopLog ==
    /\ log_list' = pop_log(log_list)
    /\ UNCHANGED ignore_logs
    /\ Called("pop_log", NoArg, Unit)
    /\ NoOutput

\* cons.ignore_logs = b (the field is pub)
SetIgnoreLogs(b) ==
    /\ ignore_logs' = b
    /\ UNCHANGED log_list
    /\ Called("ignore_logs", FlagArg(b), Unit)
    /\ NoOutput

Consume(result) ==
    /\ Len(log_list) < MaxLogs
    /\ LET c == consume(result, log_list, ignore_logs) IN
          /\ log_list' = c.log_list
          /\ Called("consume", ResultArg(result), c.ret)
    /\ UNCHANGED ignore_logs
    /\ NoOutput

\* A faulty output, which keeps the truncation note it printed in the buffer.
Output_BuffersNote(files) ==
    /\ clock < MaxOutputs
    /\ clock' = clock + 1
    /\ LET o == output(log_list, log_limit, lang, files, clock', fs) IN
          /\ term' = o.term
          /\ cons_log_lines' = o.lines
          /\ fs' = o.fs
    /\ log_files' = files
    /\ log_list' = IF log_limit.tag = "Limited" /\ log_limit.n.hi = 0
                      /\ Len(log_list) > log_limit.n.lo
                   THEN Append(SubSeq(log_list, 1, log_limit.n.lo), LimitNote(log_limit))
                   ELSE log_list
    /\ UNCHANGED ignore_logs
    /\ Called("output", NoArg, Unit)

Output(files) ==
    /\ clock < MaxOutputs
    /\ clock' = clock + 1
    /\ LET o == output(log_list, log_limit, lang, files, clock', fs) IN
          /\ term' = o.term
          /\ cons_log_lines' = o.lines
          /\ fs' = o.fs
    /\ log_files' = files
    /\ UNCHANGED <<log_list, ignore_logs>>
    /\ Called("output", NoArg, Unit)

\* The console, printing to the terminal: output is called with no log
\* file, or with one that cannot be created.
Next ==
    \/ \E log \in LogPool : AppendLog(log)
    \/ Clear
    \/ PopLog
    \/ \E b \in BOOLEAN : SetIgnoreLogs(b)
    \/ \E result \in ResultPool : Consume(result)
    \/ \E files \in TermFiles : Output(files)

Spec == Init /\ [][Next]_vars

\* The console, writing log files: entries are appended and output is
\* called with every list of log files.
InitFiles == Init /\ log_limit \in FileLimits

NextFiles ==
    \/ \E log \in FileLogPool : AppendLog(log)
    \/ \E files \in SeqsUpTo(FilePool, MaxFiles) : Output(files)

SpecFiles == InitFiles /\ [][NextFiles]_vars


\* The translators, resolving nodes under the language of the console as
\* print does for a title or a description: every variant of
\* InternalTranslator, and translators of the host application.
LangCodes == {"en", "ja", "fr", "EN", "jp", ""}

InternalVariants ==
    {"ExpectedFilePathNotDirectoryPath", "FailedToGetCurrentDirectory",
     "FailedToOpenFile", "FailedToOpenFileOrDirectory", "FailedToReadFile",
     "FailedToWriteFile", "MetadataIsNotAvailableOnThisPlatform", "PathDoesNotExist"}

InternalNodes ==
    {Internal(v) : v \in InternalVariants}
        \cup {LogLimitExceeded(NoLimit), LogLimitExceeded(Limited(U(1))),
              PathDescription("foo.txt")}

TranslateNodes ==
    InternalNodes \cup {UserTranslator("low disk", {"en", "ja", "fr"}),
                        UserTranslator("hint", {"en"})}

NodeArg(node) ==
    [tag |-> "Node", log |-> << >>, result |-> << >>, flag |-> FALSE, node |-> <<node>>]

InitTranslate ==
    /\ lang \in LangCodes
    /\ log_limit \in FileLimits
    /\ log_list = << >>
    /\ ignore_logs = FALSE
    /\ fs = [p \in Paths |-> NoFile]
    /\ clock = 0
    /\ term = << >>
    /\ cons_log_lines = << >>
    /\ log_files = << >>
    /\ arg = NoArg
    /\ ret = Unit
    /\ last_op = "new"
    /\ prev_op = "none"
    /\ before = << >>

Translate(node) ==
    /\ Called("translate", NodeArg(node), translate(node, lang))
    /\ UNCHANGED <<log_list, ignore_logs, fs, clock, term, cons_log_lines, log_files>>

NextTranslate ==
    \/ \E node \in TranslateNodes : Translate(node)
    \/ \E log \in FileLogPool : AppendLog(log)
    \/ \E b \in BOOLEAN : SetIgnoreLogs(b)

SpecTranslate == InitTranslate /\ [][NextTranslate]_vars

\* =================================================================== claims
\* What the claims are stated with: the fixed notices as the terminal shows
\* them, the size of a usize limit against a buffer length, and the blocks
\* a list of entries renders to when each entry is printed on its own.
UnknownNotice ==
    <<"\\x1b[", "31", "m", "[", "err", "]", "\\x1b[m", " ", "unknown language">>
FailureNotice ==
    <<"\\x1b[", "31", "m", "[", "err", "]", "\\x1b[m", " ", "log file writing failure">>

RECURSIVE CountLine(_, _)
CountLine(lines, l) ==
    IF Len(lines) = 0 THEN 0
    ELSE (IF lines[1] = l THEN 1 ELSE 0) + CountLine(Tail(lines), l)

\* The terminal lines of one call without the write-failure notices.
WithoutFailureNotice(lines) == SelectSeq(lines, LAMBDA l : l # FailureNotice)

\* min(N, k) and N > k for a buffer length N and a usize k
MinLen(N, k) == IF k.hi = 0 /\ k.lo < N THEN k.lo ELSE N
Exceeds(N, k) == k.hi = 0 /\ N > k.lo

\* The number of entries the limit admits, and whether it cuts the render.
Admitted(N, limit) == IF limit.tag = "NoLimit" THEN N ELSE MinLen(N, limit.n)
Truncates(N, limit) == limit.tag = "Limited" /\ Exceeds(N, limit.n)

RECURSIVE TermBlocks(_, _, _)
TermBlocks(list, m, lang_name) ==
    IF m = 0 THEN << >>
    ELSE TermBlocks(list, m - 1, lang_name) \o print(list[m], lang_name).term

RECURSIVE PlainBlocks(_, _, _)
PlainBlocks(list, m, lang_name) ==
    IF m = 0 THEN << >>
    ELSE PlainBlocks(list, m - 1, lang_name) \o print(list[m], lang_name).lines

NoteTermBlock == print(LimitNote(log_limit), lang).term
NotePlainBlock == print(LimitNote(log_limit), lang).lines

\* C1: one output call prints the blocks of the first min(N, k) buffered
\* entries (all N under NoLimit) in append order, then one truncation Note
\* block exactly when N > k; no later entry reaches the terminal or the
\* colorless lines.
C1_OutputPrintsAdmittedBlocks ==
    last_op = "output" =>
        LET N == Len(log_list)
            m == Admitted(N, log_limit)
        IN  /\ WithoutFailureNotice(term) =
                 TermBlocks(log_list, m, lang)
                   \o (IF Truncates(N, log_limit) THEN NoteTermBlock ELSE << >>)
            /\ \A i \in 1..Len(cons_log_lines) :
                 i <= Len(PlainBlocks(log_list, m, lang)) =>
                   cons_log_lines[i] = PlainBlocks(log_list, m, lang)[i]
            /\ Len(cons_log_lines) >= Len(PlainBlocks(log_list, m, lang))


\* What a log file holds, written out: the header of a call that read the
\* clock at t, a blank line, and the lines joined by newlines.
RECURSIVE JoinLines(_)
JoinLines(lines) ==
    IF Len(lines) = 0 THEN << >>
    ELSE IF Len(lines) = 1 THEN lines[1]
    ELSE lines[1] \o <<"\n">> \o JoinLines(Tail(lines))

FileText(t, lines) ==
    <<"--- Log File ---", "\n", "\n", " * created at ", ToString(t), "\n",
      " * generated by cons-util", "\n", "\n">> \o JoinLines(lines)

\* Sink i of the last output call was reached with every sink before it
\* written, its destination is writable, and no later sink targets it.
SinkStands(i) ==
    /\ \A j \in 1..i : Writable(log_files[j].output_path)
    /\ \A j \in (i + 1)..Len(log_files) :
         log_files[j].output_path # log_files[i].output_path

\* C2: when a render exceeds the limit, the lines of the truncation Note
\* are in the colorless lines after the k rendered blocks, and so in every
\* ConsoleLogs file the same call wrote.
C2_TruncationNoteInColorlessLines ==
    (last_op = "output" /\ Truncates(Len(log_list), log_limit)) =>
        LET plain == PlainBlocks(log_list, log_limit.n.lo, lang) \o NotePlainBlock
        IN  /\ cons_log_lines = plain
            /\ \A i \in 1..Len(log_files) :
                 (log_files[i].kind.tag = "ConsoleLogs" /\ SinkStands(i)) =>
                   fs[log_files[i].output_path] = File(FileText(clock, plain))

\* The lines sink i of the last output call is to hold.
SinkLines(i) ==
    IF log_files[i].kind.tag = "TextLines" THEN log_files[i].kind.lines
    ELSE cons_log_lines

\* The last sink of the list that targets the path.
LastSinkOf(path) ==
    CHOOSE i \in 1..Len(log_files) :
        /\ log_files[i].output_path = path
        /\ \A j \in (i + 1)..Len(log_files) : log_files[j].output_path # path

\* C3: a write failure on one sink does not abort the others: every sink
\* of the list whose destination is writable is written by the call.
C3_WritableSinksAreWritten ==
    last_op = "output" =>
        \A i \in 1..Len(log_files) :
            Writable(log_files[i].output_path) =>
                fs[log_files[i].output_path] =
                    File(FileText(clock, SinkLines(LastSinkOf(log_files[i].output_path))))

\* C4: one output call prints as many write-failure lines as the list has
\* sinks whose write fails, and returns normally.
C4_OneFailureNoticePerFailingSink ==
    last_op = "output" =>
        /\ CountLine(term, FailureNotice) =
             Cardinality({i \in 1..Len(log_files) : ~Writable(log_files[i].output_path)})
        /\ ret = Unit


\* Whether the title of an entry resolves under the active language.
TitleUnknown(log) == translate(log.title, lang).tag = "UnknownLanguage"

\* The block an entry is to leave on the terminal and in the colorless
\* lines: the unknown-language notice alone when its title does not resolve.
RECURSIVE ExpectedTerm(_, _)
ExpectedTerm(list, m) ==
    IF m = 0 THEN << >>
    ELSE ExpectedTerm(list, m - 1)
           \o (IF TitleUnknown(list[m]) THEN <<UnknownNotice, << >> >>
               ELSE print(list[m], lang).term)

RECURSIVE ExpectedPlain(_, _)
ExpectedPlain(list, m) ==
    IF m = 0 THEN << >>
    ELSE ExpectedPlain(list, m - 1)
           \o (IF TitleUnknown(list[m]) THEN << >> ELSE print(list[m], lang).lines)

\* A limit the i32 of print_all holds as it is.
InRange(limit) == limit.tag = "NoLimit" \/ limit.n.hi = 0

\* The numbers of entries a render may have processed.
Processed(N, limit) == IF InRange(limit) THEN {Admitted(N, limit)} ELSE 0..N

\* C5: an entry whose title resolves to UnknownLanguage leaves exactly the
\* unknown-language line (and the blank line after it) on the terminal, no
\* title or description line on the terminal or in the colorless lines, and
\* the entries after it are rendered as they are on their own.
C5_UnknownTitlePrintsOneNotice ==
    last_op = "output" =>
        \E m \in Processed(Len(log_list), log_limit) :
            /\ cons_log_lines = ExpectedPlain(log_list, m)
            /\ \/ WithoutFailureNotice(term) = ExpectedTerm(log_list, m)
               \/ /\ m < Len(log_list)
                  /\ WithoutFailureNotice(term) = ExpectedTerm(log_list, m) \o NoteTermBlock

C5_Witness ==
    /\ last_op = "output"
    /\ Len(log_list) = 2
    /\ Admitted(2, log_limit) = 2
    /\ InRange(log_limit)
    /\ TitleUnknown(log_list[1])
    /\ ~TitleUnknown(log_list[2])
    /\ Len(cons_log_lines) > 0

\* The colorless mirror of the terminal lines of one call: the notices (the
\* write-failure line, the unknown-language line and the blank line printed
\* with it) left out, the color escapes removed from the other lines.
RECURSIVE StripEscapes(_)
StripEscapes(line) ==
    IF Len(line) = 0 THEN << >>
    ELSE IF line[1] = "\\x1b[m" THEN StripEscapes(Tail(line))
    ELSE IF line[1] = "\\x1b[" THEN StripEscapes(SubSeq(line, 4, Len(line)))
    ELSE <<line[1]>> \o StripEscapes(Tail(line))

RECURSIVE Mirror(_)
Mirror(lines) ==
    IF Len(lines) = 0 THEN << >>
    ELSE IF lines[1] = FailureNotice THEN Mirror(Tail(lines))
    ELSE IF lines[1] = UnknownNotice
         THEN Mirror(SubSeq(lines, 3, Len(lines)))
         ELSE <<StripEscapes(lines[1])>> \o Mirror(Tail(lines))

\* C6: the body of a ConsoleLogs file the call wrote is the colorless
\* mirror of what the same call printed to the terminal, entry blocks and
\* truncation note alike.
C6_LogFileMirrorsTerminal ==
    last_op = "output" =>
        \A i \in 1..Len(log_files) :
            (log_files[i].kind.tag = "ConsoleLogs" /\ SinkStands(i)) =>
                fs[log_files[i].output_path] = File(FileText(clock, Mirror(term)))


\* C7 as stated: consume on a failure e appends the log of e to the buffer
\* (one entry more) and returns the bare failure signal; on a success v it
\* returns v and leaves the Console as it is.  In every Console state.
C7_ConsumeAlwaysAppends ==
    [][last_op' = "consume" =>
        LET r == arg'.result[1] IN
        IF r.tag = "Err"
        THEN /\ log_list' = Append(log_list, get_log(r.e[1]))
             /\ ret' = ConsErr
        ELSE /\ ret' = ConsOk(r.v)
             /\ UNCHANGED <<log_list, lang, log_limit, ignore_logs>>]_vars

\* C7 amended: with ignore_logs unset, consume on a failure e appends the
\* log of e; with ignore_logs set the buffer stays as it is.  Either way
\* the bare failure signal is returned and nothing but the buffer changes.
C7_ConsumeAppendsUnlessIgnored ==
    [][last_op' = "consume" =>
        LET r == arg'.result[1] IN
        IF r.tag = "Err"
        THEN /\ log_list' = IF ignore_logs THEN log_list
                            ELSE Append(log_list, get_log(r.e[1]))
             /\ ret' = ConsErr
             /\ UNCHANGED <<lang, log_limit, ignore_logs>>
        ELSE /\ ret' = ConsOk(r.v)
             /\ UNCHANGED <<log_list, lang, log_limit, ignore_logs>>]_vars

C7_Witness ==
    /\ last_op = "consume"
    /\ arg.result[1].tag = "Err"
    /\ ret = ConsErr
    /\ ~ignore_logs
    /\ Len(before) > 0
    /\ Len(log_list) = Len(before) + 1

\* C8: while ignore_logs is set, append_log leaves the buffer as it is;
\* pop_log, clear and output do what they do with the flag unset, and the
\* entries buffered earlier are still rendered.
C8_IgnoredAppendIsNoOp ==
    ignore_logs =>
        /\ last_op = "append_log" => log_list = before
        /\ last_op = "pop_log" =>
             log_list = IF Len(before) = 0 THEN << >>
                        ELSE SubSeq(before, 1, Len(before) - 1)
        /\ last_op = "clear" => log_list = << >>
        /\ last_op = "output" =>
             /\ log_list = before
             /\ InRange(log_limit) =>
                  /\ cons_log_lines =
                       PlainBlocks(log_list, Admitted(Len(log_list), log_limit), lang)
                  /\ WithoutFailureNotice(term) =
                       TermBlocks(log_list, Admitted(Len(log_list), log_limit), lang)
                         \o (IF Truncates(Len(log_list), log_limit)
                             THEN NoteTermBlock ELSE << >>)

C8_Witness ==
    /\ ignore_logs
    /\ last_op = "output"
    /\ prev_op = "append_log"
    /\ Len(log_list) > 0
    /\ Len(cons_log_lines) > 0

\* C9 as stated: pop_log on an empty buffer changes nothing; append_log(e)
\* followed by pop_log leaves the buffer as it was before the append,
\* whatever the suppression flag.
C9_AppendThenPopRestores ==
    [][last_op' = "pop_log" =>
        /\ log_list = << >> => log_list' = << >>
        /\ ret' = Unit
        /\ last_op = "append_log" => log_list' = before]_vars

\* C9 amended: pop_log on an empty buffer changes nothing; with ignore_logs
\* unset, append_log(e) followed by pop_log leaves the buffer as it was
\* before the append; with ignore_logs set the append added nothing, and
\* the pop removes the last entry buffered before it, if there is one.
C9_AppendThenPopRestoresUnlessIgnored ==
    [][last_op' = "pop_log" =>
        /\ log_list = << >> => log_list' = << >>
        /\ ret' = Unit
        /\ (last_op = "append_log" /\ ~ignore_logs) => log_list' = before
        /\ (last_op = "append_log" /\ ignore_logs) =>
             log_list' = IF Len(before) = 0 THEN << >>
                         ELSE SubSeq(before, 1, Len(before) - 1)]_vars

C9_Witness ==
    /\ last_op = "pop_log"
    /\ prev_op = "append_log"
    /\ ~ignore_logs
    /\ Len(before) = 2
    /\ Len(log_list) = 1

\* C10: clear empties the buffer from any state, a second clear changes
\* nothing, and an output called right after clear renders no entry block
\* and no truncation note, under Limited(0) as under any limit.
C10_ClearEmptiesBuffer ==
    /\ last_op = "clear" => log_list = << >>
    /\ (last_op = "clear" /\ prev_op = "clear") => log_list = before
    /\ (last_op = "output" /\ prev_op = "clear") =>
         /\ WithoutFailureNotice(term) = << >>
         /\ cons_log_lines = << >>

C10_Witness ==
    /\ last_op = "output"
    /\ prev_op = "clear"
    /\ log_limit = Limited(U(0))
    /\ log_list = << >>


\* C11: every operation leaves the buffer as the accepted appends that were
\* not removed, in append order: an accepted append_log or consume adds its
\* entry at the end and changes no other entry, pop_log removes the last
\* entry only, clear removes all, and nothing else touches the buffer.
C11_BufferIsAppendOrder ==
    [][/\ last_op' = "append_log" =>
            log_list' = IF ignore_logs THEN log_list
                        ELSE log_list \o <<arg'.log[1]>>
       /\ last_op' = "consume" =>
            log_list' = IF arg'.result[1].tag = "Err" /\ ~ignore_logs
                        THEN log_list \o <<get_log(arg'.result[1].e[1])>>
                        ELSE log_list
       /\ last_op' = "pop_log" =>
            /\ Len(log_list') = (IF Len(log_list) = 0 THEN 0 ELSE Len(log_list) - 1)
            /\ \A i \in 1..Len(log_list') : log_list'[i] = log_list[i]
       /\ last_op' = "clear" => log_list' = << >>
       /\ last_op' \in {"output", "ignore_logs"} => log_list' = log_list]_vars

C11_Witness ==
    /\ last_op = "pop_log"
    /\ Len(before) = 2
    /\ before[1] # before[2]
    /\ log_list = <<before[1]>>

\* C12: the limit never restricts append: with ignore_logs unset,
\* append_log adds the entry also when the buffer already holds k or more
\* entries under Limited(k); and an output call, truncating or not, leaves
\* all N entries in the buffer.
C12_LimitNeverRestrictsAppend ==
    /\ (last_op = "append_log" /\ ~ignore_logs) =>
         log_list = before \o <<arg.log[1]>>
    /\ last_op = "output" => log_list = before

C12_Witness ==
    /\ last_op = "output"
    /\ prev_op = "append_log"
    /\ ~ignore_logs
    /\ log_limit = Limited(U(1))
    /\ Len(log_list) = 2
    /\ Len(WithoutFailureNotice(term)) < Len(TermBlocks(log_list, 2, lang))


\* The sinks of a list that a call writes: sink i is reached when every
\* sink before it was written, and written when its destination is
\* writable; the last write to a path is by the last written sink on it.
Reached(files, i) == \A j \in 1..(i - 1) : Writable(files[j].output_path)
Written(files, i) == Reached(files, i) /\ Writable(files[i].output_path)
WritersOf(files, path) ==
    {i \in 1..Len(files) : Written(files, i) /\ files[i].output_path = path}
LastWriterOf(files, path) ==
    CHOOSE i \in WritersOf(files, path) : \A j \in WritersOf(files, path) : j <= i

\* C13: log files are overwritten: after an output call a path that the
\* call wrote holds exactly what the last sink written to it produced
\* (header, blank line, the lines of that one sink), with nothing of what
\* it held before or of an earlier sink of the list; a path that the call
\* did not open holds what it held, and no other operation touches a file.
C13_SinkFilesAreOverwritten ==
    [][IF last_op' = "output"
       THEN \A path \in Paths :
              LET files == log_files'
                  opened == \E i \in 1..Len(files) :
                               /\ Reached(files, i)
                               /\ files[i].output_path = path
                               /\ path \notin CreateFails
              IN  IF WritersOf(files, path) # {}
                  THEN LET sink == files[LastWriterOf(files, path)]
                           body == IF sink.kind.tag = "TextLines"
                                   THEN sink.kind.lines ELSE cons_log_lines'
                       IN  fs'[path] = File(FileText(clock', body))
                  ELSE ~opened => fs'[path] = fs[path]
       ELSE fs' = fs]_vars

C13_Witness ==
    /\ last_op = "output"
    /\ clock = 2
    /\ Len(log_files) = 2
    /\ log_files[1] = LogFile(ConsoleLogs, "a.log")
    /\ log_files[2].output_path = "a.log"
    /\ log_files[2].kind.tag = "TextLines"
    /\ Len(cons_log_lines) > 0
    /\ fs["a.log"] = File(FileText(2, log_files[2].kind.lines))
    /\ fs["b.log"].exists

\* C14: a TextLines log file is written with the lines the caller gave as
\* its body, whatever the buffer, the limit and the language are; a
\* ConsoleLogs log file of the same list holds the colorless lines of the
\* call, and the call rendered the buffer once, however many log files the
\* list has.
C14_TextLinesBodyIsCallerLines ==
    last_op = "output" =>
        /\ \A i \in 1..Len(log_files) :
             (Written(log_files, i)
                /\ LastWriterOf(log_files, log_files[i].output_path) = i) =>
                 fs[log_files[i].output_path] =
                     File(FileText(clock,
                                   IF log_files[i].kind.tag = "TextLines"
                                   THEN log_files[i].kind.lines
                                   ELSE cons_log_lines))
        /\ \E m \in Processed(Len(log_list), log_limit) :
             /\ cons_log_lines = PlainBlocks(log_list, m, lang)
             /\ \/ WithoutFailureNotice(term) = TermBlocks(log_list, m, lang)
                \/ WithoutFailureNotice(term) =
                     TermBlocks(log_list, m, lang) \o NoteTermBlock

C14_Witness ==
    /\ last_op = "output"
    /\ Len(log_list) = 2
    /\ log_files = <<LogFile(TextLines(<< <<"build 42">>, <<"done">> >>), "a.log"),
                     LogFile(ConsoleLogs, "b.log")>>
    /\ fs["a.log"] = File(FileText(clock, << <<"build 42">>, <<"done">> >>))
    /\ fs["b.log"] = File(FileText(clock, cons_log_lines))
    /\ Len(cons_log_lines) > 2


\* The color number and the label the terminal shows for a kind.
ColorOf(kind) ==
    CASE kind = "Error" -> "31" [] kind = "Warning" -> "33" [] kind = "Note" -> "34"
LabelOf(kind) ==
    CASE kind = "Error" -> "err" [] kind = "Warning" -> "warn" [] kind = "Note" -> "note"

\* The descriptions 1..j of an entry all resolve under the active language.
DescsResolve(log, j) ==
    \A i \in 1..j : translate(log.descs[i], lang).tag = "Success"

\* C15: the terminal title line of a rendered entry is the escape of the
\* color of its kind (31, 33, 34), the label in brackets (err, warn, note),
\* the reset escape, a space and the title text; the colorless title line
\* is that line without the two escapes; a description line is the resolved
\* text in both; and no colorless line holds an escape.
C15_TitleAndDescriptionLines ==
    last_op = "output" =>
        /\ \A i \in 1..Len(cons_log_lines) :
             \A c \in 1..Len(cons_log_lines[i]) :
                cons_log_lines[i][c] \notin {"\\x1b[", "\\x1b[m"}
        /\ (/\ InRange(log_limit)
            /\ Admitted(Len(log_list), log_limit) >= 1
            /\ ~TitleUnknown(log_list[1])) =>
             LET log == log_list[1]
                 text == translate(log.title, lang).text
             IN  /\ term[1] = <<"\\x1b[", ColorOf(log.kind), "m",
                                "[", LabelOf(log.kind), "]", "\\x1b[m", " ">> \o text
                 /\ cons_log_lines[1] = <<"[", LabelOf(log.kind), "]", " ">> \o text
                 /\ cons_log_lines[1] = StripEscapes(term[1])
                 /\ \A j \in 1..Len(log.descs) :
                      DescsResolve(log, j) =>
                        /\ term[1 + j] = translate(log.descs[j], lang).text
                        /\ cons_log_lines[1 + j] = translate(log.descs[j], lang).text

C15_Witness ==
    /\ last_op = "output"
    /\ lang = "ja"
    /\ Len(log_list) = 2
    /\ log_list[1] = LogLowDisk
    /\ log_list[2].kind = "Error"
    /\ term[1][2] = "33"
    /\ term[6][2] = "31"
    /\ term[4] = cons_log_lines[4]
    /\ cons_log_lines[4] = <<"ja", ":", "free some space">>


\* C16: a node of the built-in translator resolves to Success with a text
\* under en and under ja and to UnknownLanguage under every other code;
\* resolving a node again under the same language gives the same result,
\* and a resolution changes nothing of the Console.
C16_TranslationIsTotalAndDeterministic ==
    [][last_op' = "translate" =>
        LET node == arg'.node[1] IN
        /\ node \in InternalNodes =>
             IF lang \in {"en", "ja"}
             THEN ret'.tag = "Success" /\ Len(ret'.text) > 0
             ELSE ret' = UnknownLanguage
        /\ (last_op = "translate" /\ arg.node[1] = node) => ret' = ret
        /\ UNCHANGED <<lang, log_list, log_limit, ignore_logs>>]_vars

C16_Witness ==
    /\ last_op = "translate"
    /\ prev_op = "translate"
    /\ lang = "ja"
    /\ Len(log_list) = 2
    /\ arg.node[1] = LogLimitExceeded(Limited(U(1)))
    /\ ret = Success(<<"ja:log limit ", "1", " exceeded">>)


\* C17: every entry a render processed is followed by exactly one blank line
\* on the terminal and in the colorless lines, also an entry abandoned at a
\* title or a description that did not resolve: both hold as many blank
\* lines as entries were processed (the terminal one more for the
\* truncation note).
C17_OneBlankLinePerProcessedEntry ==
    last_op = "output" =>
        \E m \in Processed(Len(log_list), log_limit) :
            /\ CountLine(cons_log_lines, << >>) = m
            /\ CountLine(term, << >>) = m + (IF m < Len(log_list) THEN 1 ELSE 0)


\* The lines of a sequence that are not blank.
NonBlank(lines) == SelectSeq(lines, LAMBDA l : l # << >>)

\* The texts of the descriptions of an entry from the i-th on, up to the
\* first that does not resolve under the active language, and whether one
\* of them does not resolve.
RECURSIVE ResolvedDescs(_, _)
ResolvedDescs(log, i) ==
    IF i > Len(log.descs) \/ translate(log.descs[i], lang).tag = "UnknownLanguage"
    THEN << >>
    ELSE <<translate(log.descs[i], lang).text>> \o ResolvedDescs(log, i + 1)

DescUnknown(log) ==
    \E i \in 1..Len(log.descs) : translate(log.descs[i], lang).tag = "UnknownLanguage"

\* The lines, blank lines aside, an entry is to leave on the terminal and
\* in the colorless lines.
EntryTermLines(log) ==
    IF TitleUnknown(log) THEN <<UnknownNotice>>
    ELSE <<<<"\\x1b[", ColorOf(log.kind), "m", "[", LabelOf(log.kind), "]", "\\x1b[m", " ">>
             \o translate(log.title, lang).text>>
           \o ResolvedDescs(log, 1)
           \o (IF DescUnknown(log) THEN <<UnknownNotice>> ELSE << >>)

EntryPlainLines(log) ==
    IF TitleUnknown(log) THEN << >>
    ELSE <<<<"[", LabelOf(log.kind), "]", " ">> \o translate(log.title, lang).text>>
           \o ResolvedDescs(log, 1)

RECURSIVE EntriesTermLines(_, _)
EntriesTermLines(list, m) ==
    IF m = 0 THEN << >>
    ELSE EntriesTermLines(list, m - 1) \o EntryTermLines(list[m])

RECURSIVE EntriesPlainLines(_, _)
EntriesPlainLines(list, m) ==
    IF m = 0 THEN << >>
    ELSE EntriesPlainLines(list, m - 1) \o EntryPlainLines(list[m])

\* C18: when a description of an entry does not resolve, the title line and
\* the descriptions before it are on the terminal and in the colorless
\* lines, the unknown-language line follows on the terminal only and is in
\* no colorless line and no log file, no later description of the entry is
\* rendered, and the entries after it are rendered as they are on their own.
C18_UnknownDescriptionAbandonsEntry ==
    last_op = "output" =>
        /\ \E m \in Processed(Len(log_list), log_limit) :
             /\ NonBlank(cons_log_lines) = EntriesPlainLines(log_list, m)
             /\ NonBlank(WithoutFailureNotice(term)) =
                  EntriesTermLines(log_list, m)
                    \o (IF m < Len(log_list) THEN NonBlank(NoteTermBlock) ELSE << >>)
        /\ \A i \in 1..Len(cons_log_lines) :
             \A c \in 1..Len(cons_log_lines[i]) : cons_log_lines[i][c] # "unknown language"
        /\ \A path \in Paths :
             \A c \in 1..Len(fs[path].content) : fs[path].content[c] # "unknown language"

C18_Witness ==
    /\ last_op = "output"
    /\ lang = "fr"
    /\ log_limit = NoLimit
    /\ log_list = <<LogLowDisk, LogLowDisk>>
    /\ CountLine(term, UnknownNotice) = 2
    /\ NonBlank(cons_log_lines) =
         << <<"[", "warn", "]", " ", "fr", ":", "low disk">>, <<"fr", ":", "usage 97%">>,
            <<"[", "warn", "]", " ", "fr", ":", "low disk">>, <<"fr", ":", "usage 97%">> >>
    /\ Len(log_files) > 0
    /\ log_files[1] = LogFile(ConsoleLogs, "a.log")
    /\ fs["a.log"] = File(FileText(clock, cons_log_lines))


\* C19: output leaves the Console as it is: buffer, limit, language and
\* ignore_logs are the same after the call (no truncation note enters the
\* buffer), and an output call that follows another with nothing in between
\* renders the same terminal lines and the same colorless lines; with the
\* same log files the whole terminal output is the same.
C19_OutputLeavesConsoleUnchanged ==
    [][last_op' = "output" =>
        /\ UNCHANGED <<log_list, log_limit, lang, ignore_logs>>
        /\ last_op = "output" =>
             /\ cons_log_lines' = cons_log_lines
             /\ WithoutFailureNotice(term') = WithoutFailureNotice(term)
             /\ log_files' = log_files => term' = term]_vars

C19_Witness ==
    /\ last_op = "output"
    /\ prev_op = "output"
    /\ clock = 2
    /\ log_limit = Limited(U(1))
    /\ Len(log_list) = 2
    /\ LimitNote(log_limit) \notin {log_list[i] : i \in 1..Len(log_list)}
    /\ Len(cons_log_lines) > 0
    /\ Len(WithoutFailureNotice(term)) > Len(TermBlocks(log_list, 1, lang))

\* C20: Limited(k) cuts the render exactly at entry k + 1, for every k a
\* usize holds: the colorless lines are the blocks of the first min(N, k)
\* entries, and the terminal holds those blocks and the lines of the
\* truncation note exactly when N > k; a k at or beyond 2^31 neither cuts
\* the render before k entries nor turns the limit off.
C20_LimitedCutsAtEntryKPlusOne ==
    (last_op = "output" /\ log_limit.tag = "Limited") =>
        LET N == Len(log_list)
            k == log_limit.n
        IN  /\ cons_log_lines = PlainBlocks(log_list, MinLen(N, k), lang)
            /\ Len(WithoutFailureNotice(term)) =
                 Len(TermBlocks(log_list, MinLen(N, k), lang))
                   + (IF Exceeds(N, k) THEN Len(NoteTermBlock) ELSE 0)


\* Whether the rendering of an entry is abandoned under the active language.
Abandoned(log) == TitleUnknown(log) \/ DescUnknown(log)

\* C21: under Limited(k) an entry abandoned at a title or a description
\* that did not resolve counts toward the limit: when such an entry is among
\* the first min(N, k), the render still processes exactly the first
\* min(N, k) entries, and issues the truncation note exactly when N > k.
C21_AbandonedEntriesCountTowardLimit ==
    (/\ last_op = "output"
     /\ log_limit.tag = "Limited"
     /\ \E i \in 1..MinLen(Len(log_list), log_limit.n) : Abandoned(log_list[i])) =>
        LET N == Len(log_list)
            m == MinLen(N, log_limit.n)
        IN  /\ NonBlank(cons_log_lines) = EntriesPlainLines(log_list, m)
            /\ NonBlank(WithoutFailureNotice(term)) =
                 EntriesTermLines(log_list, m)
                   \o (IF Exceeds(N, log_limit.n) THEN NonBlank(NoteTermBlock) ELSE << >>)

====
